---- MODULE Spec2Model ----
(***************************************************************************)
(* Model of the salinity consensus task, Transports/Consensus/Task.cpp.    *)
(*                                                                         *)
(* Every variable is a function over the set of running nodes (DOMAIN pc): *)
(* one node fed by an arbitrary environment under Spec, ReplaySpec,        *)
(* CfgSpec, FilterSpec, FanSpec (interfaces change, writes fail), StopSpec *)
(* (the host stops the task) and SatSpec, two nodes that hear each other   *)
(* under NetSpec and FairNetSpec.                                          *)
(*                                                                         *)
(* consume() is bound to IMC::Salinity in the constructor, but onMain      *)
(* never waits for or consumes bus messages, so it is never called and has *)
(* no action here.  joinMulticastGroup is taken to succeed.                *)
(*                                                                         *)
(* Values are integers.  The salinity fields are fp32/fp64 in the source;  *)
(* for integral values setValueFP/getValueFP are exact and abs() agrees    *)
(* for both of its overloads (int and double).                             *)
(***************************************************************************)
EXTENDS Integers, Sequences, FiniteSets, TLC

VARIABLES
    m_args,                      \* Arguments m_args (configuration)
    itfs,                        \* what Interface::get() returns
    bindable,                    \* ports on which UDPSocket::bind succeeds
    traffic,                     \* datagrams foreign senders may send
    watch,                       \* (address, timestamp) pairs whose merges are recorded
    pc,                          \* position of the task
    m_sock,                      \* <<>> unbound, <<port>> bound
    binds,                       \* ports passed to m_sock.bind, in order
    m_dsts,                      \* std::vector<Destination> m_dsts
    m_salinity_received,         \* the pointer: "null", "wild" or "freed"
    m_salinity_estimated_local,  \* value of the local estimate
    m_tstamps,                   \* std::map<Address, double> m_tstamps
    inbox,                       \* datagrams queued on the socket
    stop,                        \* what stopping() returns
    now,                         \* the clock read by setTimeStamp
    ev,                          \* what the last step of the task did
    merged,                      \* history: the watched pairs merged so far
    faulty,                      \* addresses on which m_sock.write may throw
    sent                         \* the dispatch and the writes of the last announce

vars == <<m_args, itfs, bindable, traffic, watch, pc, m_sock, binds, m_dsts,
          m_salinity_received, m_salinity_estimated_local, m_tstamps,
          inbox, stop, now, ev, merged, faulty, sent>>

-----------------------------------------------------------------------------
(* Bounds of the model. *)

\* Largest configured bound (max_acceptable_salinity) tried.
MaxBound == 2
\* Datagrams the socket queues before the transport drops new ones.
MaxQueue == 1
\* Clock readings after which the network between the nodes is down.
MaxClock == 3

-----------------------------------------------------------------------------
(* Program constants and the values the environment draws from. *)

P1 == 31100
P2 == 31101

Loopback == "127.0.0.1"
BcastAll == "255.255.255.255"
AddrMcast == "224.0.75.69"
AddrAny == "0.0.0.0"

Lo == [address |-> "127.0.0.1", broadcast |-> "127.255.255.255"]
Eth0 == [address |-> "10.0.0.1", broadcast |-> "10.0.0.255"]
Eth1 == [address |-> "10.0.1.1", broadcast |-> "10.0.0.255"]
Ppp0 == [address |-> "10.8.0.1", broadcast |-> "0.0.0.0"]
Wlan0 == [address |-> "10.0.2.1", broadcast |-> "10.0.2.255"]

Nodes == DOMAIN pc

\* The system id dispatch() stamps on the local estimate, and a node's address.
SystemId(n) == n
NodeAddr(n) == IF n = 1 THEN "10.0.0.1" ELSE "10.0.0.2"

Abs(x) == IF x < 0 THEN -x ELSE x

\* Peer values, and what a read through an invalid pointer may return.
Vals == {-2, 2}
Garbage == {-2, 0, 2}

\* Datagrams: malformed, of another message type, or a Salinity message with
\* the sender's address and the message's timestamp, source id and value.
Datagram(k, a, t, s, v) == [kind |-> k, addr |-> a, ts |-> t, src |-> s, val |-> v]
Malformed == Datagram("bad", "10.0.0.2", 0, 0, 0)
OtherType == Datagram("other", "10.0.0.2", 1, 2, 0)
SalinityFrom(addrs, times, srcs, vals) ==
    {Datagram("sal", a, t, s, v) : a \in addrs, t \in times, s \in srcs, v \in vals}

-----------------------------------------------------------------------------
(* onResourceInitialization: the bind loop. *)

\* Mutant: the loop goes on after a successful bind (the return is missing).
RECURSIVE BindFrom_NoReturn(_, _, _)
BindFrom_NoReturn(ports, ok, i) ==
    IF i > Len(ports) THEN <<>>
    ELSE <<ports[i]>> \o BindFrom_NoReturn(ports, ok, i + 1)

RECURSIVE BindFrom(_, _, _)
BindFrom(ports, ok, i) ==
    IF i > Len(ports) THEN <<>>
    ELSE IF ports[i] \in ok THEN <<ports[i]>>
    ELSE <<ports[i]>> \o BindFrom(ports, ok, i + 1)

\* The ports bind() is called with: all up to and including the first success.
BindAttempts(ports, ok) == BindFrom(ports, ok, 1)

\* The socket after the loop: bound to the last port tried if that bind succeeded.
BoundSocket(ports, ok) ==
    LET tried == BindAttempts(ports, ok)
    IN IF tried # <<>> /\ tried[Len(tried)] \in ok THEN <<tried[Len(tried)]>> ELSE <<>>

-----------------------------------------------------------------------------
(* probeInterfaces: the destination list. *)

Destination(a, p, l) == [addr |-> a, port |-> p, local |-> l]

PerPort(ports, a, l) == [i \in 1..Len(ports) |-> Destination(a, ports[i], l)]

IsLoopback(a) == a = Loopback
IsAny(a) == a = AddrAny

\* Mutant: an interface whose broadcast address an earlier interface already
\* gave is skipped.
RECURSIVE ItfBroadcasts_Dedup(_, _, _)
ItfBroadcasts_Dedup(is, ports, i) ==
    IF i > Len(is) THEN <<>>
    ELSE IF \/ IsLoopback(is[i].address) \/ IsAny(is[i].broadcast)
            \/ \E j \in 1..(i - 1) : is[j].broadcast = is[i].broadcast
         THEN ItfBroadcasts_Dedup(is, ports, i + 1)
         ELSE PerPort(ports, is[i].broadcast, FALSE) \o ItfBroadcasts_Dedup(is, ports, i + 1)

RECURSIVE ItfBroadcasts(_, _, _)
ItfBroadcasts(is, ports, i) ==
    IF i > Len(is) THEN <<>>
    ELSE IF IsLoopback(is[i].address) \/ IsAny(is[i].broadcast)
         THEN ItfBroadcasts(is, ports, i + 1)
         ELSE PerPort(ports, is[i].broadcast, FALSE) \o ItfBroadcasts(is, ports, i + 1)

LoopbackDsts(a) == IF a.enable_lback THEN PerPort(a.ports, Loopback, TRUE) ELSE <<>>
MulticastDsts(a) == IF a.enable_mcast THEN PerPort(a.ports, AddrMcast, FALSE) ELSE <<>>
\* Mutant: the broadcast section is guarded by the multicast flag.
BroadcastDsts_McastFlag(a, is) ==
    IF a.enable_mcast
    THEN PerPort(a.ports, BcastAll, FALSE) \o ItfBroadcasts(is, a.ports, 1)
    ELSE <<>>

BroadcastDsts(a, is) ==
    IF a.enable_bcast
    THEN PerPort(a.ports, BcastAll, FALSE) \o ItfBroadcasts(is, a.ports, 1)
    ELSE <<>>

probeInterfaces(a, is) == LoopbackDsts(a) \o MulticastDsts(a) \o BroadcastDsts(a, is)

-----------------------------------------------------------------------------
(* readMessage: the inbound filter. *)

\* Mutant: only an older timestamp counts as a duplicate.
IsDuplicate_Older(rec, d) == d.addr \in DOMAIN rec /\ rec[d.addr] > d.ts

IsDuplicate(rec, d) == d.addr \in DOMAIN rec /\ rec[d.addr] = d.ts

\* Mutant: the entry keeps the newest timestamp seen.
Record_KeepNewest(rec, d) ==
    [a \in DOMAIN rec \cup {d.addr} |->
        IF a = d.addr /\ (a \notin DOMAIN rec \/ rec[a] < d.ts) THEN d.ts ELSE rec[a]]

Record(rec, d) ==
    [a \in DOMAIN rec \cup {d.addr} |-> IF a = d.addr THEN d.ts ELSE rec[a]]

\* Mutant: the comparison of the source ids is inverted.
IsSelfEcho_Inverted(src, d) == src # d.src

IsSelfEcho(src, d) == src = d.src

Filter(rec, src, d) ==
    IF d.kind = "bad" THEN "malformed"
    ELSE IF d.kind # "sal" THEN "wrong-type"
    ELSE IF IsDuplicate(rec, d) THEN "duplicate"
    ELSE IF IsSelfEcho(src, d) THEN "self-echo"
    ELSE "accepted"

\* Mutant: the timestamp is recorded before the message type is checked.
Stamped_BeforeType(rec, src, d) ==
    IF d.kind # "bad" /\ ~IsDuplicate(rec, d) THEN Record(rec, d) ELSE rec

\* Mutant: the timestamp is recorded after the source id is checked.
Stamped_AfterEcho(rec, src, d) ==
    IF Filter(rec, src, d) = "accepted" THEN Record(rec, d) ELSE rec

\* m_tstamps after the filter: written once the type checks pass and the
\* timestamp differs from the stored one, before the source id is looked at.
Stamped(rec, src, d) ==
    IF Filter(rec, src, d) \in {"self-echo", "accepted"} THEN Record(rec, d) ELSE rec

-----------------------------------------------------------------------------
(* stimateSalinity: the merge. *)

\* What m_salinity_received->value yields.  The pointer is never valid there:
\* "freed" points at the message readMessage deleted (it may still hold the
\* message's value), "wild" is the never-initialised member.
Deref(ref, actual) ==
    {[ok |-> FALSE, val |-> 0]} \cup
    {[ok |-> TRUE, val |-> v] : v \in Garbage \cup (IF ref = "freed" THEN {actual} ELSE {})}

\* Mutant: the bound is compared with the local value, not its magnitude.
stimateSalinity_NoAbs(ref, loc, a, actual) ==
    IF ref = "null"
    THEN {[crash |-> FALSE, local |-> a.measured_salinity]}
    ELSE IF loc < a.max_acceptable_salinity
    THEN {IF r.ok THEN [crash |-> FALSE, local |-> r.val + loc]
                  ELSE [crash |-> TRUE, local |-> loc] : r \in Deref(ref, actual)}
    ELSE {[crash |-> FALSE, local |-> a.max_acceptable_salinity]}

\* Mutant: a local value whose magnitude equals the bound is still added to.
stimateSalinity_Inclusive(ref, loc, a, actual) ==
    IF ref = "null"
    THEN {[crash |-> FALSE, local |-> a.measured_salinity]}
    ELSE IF Abs(loc) <= a.max_acceptable_salinity
    THEN {IF r.ok THEN [crash |-> FALSE, local |-> r.val + loc]
                  ELSE [crash |-> TRUE, local |-> loc] : r \in Deref(ref, actual)}
    ELSE {[crash |-> FALSE, local |-> a.max_acceptable_salinity]}

\* The outcomes of one merge: the new local value, or a crash.
stimateSalinity(ref, loc, a, actual) ==
    IF ref = "null"
    THEN {[crash |-> FALSE, local |-> a.measured_salinity]}
    ELSE IF Abs(loc) < a.max_acceptable_salinity
    THEN {IF r.ok THEN [crash |-> FALSE, local |-> r.val + loc]
                  ELSE [crash |-> TRUE, local |-> loc] : r \in Deref(ref, actual)}
    ELSE {[crash |-> FALSE, local |-> a.max_acceptable_salinity]}
-----------------------------------------------------------------------------
(* announceEstimatedSalinity: rebuild the destinations, stamp, write. *)

Min(a, b) == IF a < b THEN a ELSE b

\* Mutant: the first write that throws ends the loop over the destinations.
RECURSIVE Writes_Abort(_, _, _)
Writes_Abort(dsts, bad, i) ==
    IF i > Len(dsts) THEN <<>>
    ELSE IF dsts[i].local THEN Writes_Abort(dsts, bad, i + 1)
    ELSE IF dsts[i].addr \in bad
         THEN <<[addr |-> dsts[i].addr, port |-> dsts[i].port, ok |-> FALSE]>>
         ELSE <<[addr |-> dsts[i].addr, port |-> dsts[i].port, ok |-> TRUE]>>
                  \o Writes_Abort(dsts, bad, i + 1)

\* The m_sock.write calls of one announce, in order: one for every destination
\* not flagged local; a write to an address in bad throws and is caught.
RECURSIVE Writes(_, _, _)
Writes(dsts, bad, i) ==
    IF i > Len(dsts) THEN <<>>
    ELSE IF dsts[i].local THEN Writes(dsts, bad, i + 1)
    ELSE <<[addr |-> dsts[i].addr, port |-> dsts[i].port, ok |-> dsts[i].addr \notin bad]>>
             \o Writes(dsts, bad, i + 1)

\* Copies of one announce of node n that reach the socket of node p: one per
\* write that succeeded on p's port, while the network is up.
Copies(n, p, ws) ==
    IF now < MaxClock /\ m_sock[p] # <<>> /\ pc[p] \in {"main", "loop", "wait"}
    THEN Cardinality({i \in DOMAIN ws : ws[i].ok /\ ws[i].port = m_sock[p][1]})
    ELSE 0

\* A full socket queue drops what arrives.
Enqueue(q, k, d) == q \o [i \in 1..Min(k, MaxQueue - Len(q)) |-> d]

\* rest is node n's own queue after this step.
announceEstimatedSalinity(n, val, rest) ==
    LET dsts == probeInterfaces(m_args[n], itfs[n])
        msg == Datagram("sal", NodeAddr(n), now, SystemId(n), val)
    IN /\ m_dsts' = [m_dsts EXCEPT ![n] = dsts]
       /\ now' = IF now < MaxClock THEN now + 1 ELSE now
       /\ \E bad \in SUBSET faulty[n] :
            LET ws == Writes(dsts, bad, 1)
            IN /\ sent' = [sent EXCEPT ![n] = [dispatches |-> 1, writes |-> ws]]
               /\ inbox' = [p \in Nodes |->
                              IF p = n THEN rest ELSE Enqueue(inbox[p], Copies(n, p, ws), msg)]

-----------------------------------------------------------------------------
(* The task. *)

\* What a step did: the handler, the filter's verdict, the calls of
\* stimateSalinity and announceEstimatedSalinity, the local value it found.
Event(op, res, merges, announces, pre) ==
    [op |-> op, res |-> res, merges |-> merges, announces |-> announces, pre |-> pre]

onResourceInitialization(n) ==
    /\ pc[n] = "init"
    /\ binds' = [binds EXCEPT ![n] = BindAttempts(m_args[n].ports, bindable[n])]
    /\ m_sock' = [m_sock EXCEPT ![n] = BoundSocket(m_args[n].ports, bindable[n])]
    /\ pc' = [pc EXCEPT ![n] = IF m_sock'[n] # <<>> THEN "main" ELSE "fatal"]
    /\ ev' = [ev EXCEPT ![n] = Event("init", "-", 0, 0, m_salinity_estimated_local[n])]
    /\ UNCHANGED <<m_args, itfs, bindable, traffic, watch, m_dsts, m_salinity_received,
                   m_salinity_estimated_local, m_tstamps, inbox, stop, now, merged,
                   faulty, sent>>

\* onMain up to the loop: the startup merge and announce.
onMain(n) ==
    /\ pc[n] = "main"
    /\ \E o \in stimateSalinity(m_salinity_received[n], m_salinity_estimated_local[n],
                                m_args[n], 0) :
         IF o.crash
         THEN /\ pc' = [pc EXCEPT ![n] = "crashed"]
              /\ ev' = [ev EXCEPT ![n] = Event("start", "-", 1, 0, m_salinity_estimated_local[n])]
              /\ UNCHANGED <<m_salinity_estimated_local, m_dsts, now, inbox, sent>>
         ELSE /\ pc' = [pc EXCEPT ![n] = "loop"]
              /\ m_salinity_estimated_local' =
                     [m_salinity_estimated_local EXCEPT ![n] = o.local]
              /\ announceEstimatedSalinity(n, o.local, inbox[n])
              /\ ev' = [ev EXCEPT ![n] = Event("start", "-", 1, 1, m_salinity_estimated_local[n])]
    /\ UNCHANGED <<m_args, itfs, bindable, traffic, watch, m_sock, binds,
                   m_salinity_received, m_tstamps, stop, merged, faulty>>

\* while (!stopping())
LoopTest(n) ==
    /\ pc[n] = "loop"
    /\ pc' = [pc EXCEPT ![n] = IF stop[n] THEN "stopped" ELSE "wait"]
    /\ UNCHANGED <<m_args, itfs, bindable, traffic, watch, m_sock, binds, m_dsts,
                   m_salinity_received, m_salinity_estimated_local, m_tstamps,
                   inbox, stop, now, ev, merged, faulty, sent>>

\* Delay::wait, then poll() finds nothing to read.
PollTimeout(n) ==
    /\ pc[n] = "wait"
    /\ inbox[n] = <<>>
    /\ pc' = [pc EXCEPT ![n] = "loop"]
    /\ ev' = [ev EXCEPT ![n] = Event("timeout", "-", 0, 0, m_salinity_estimated_local[n])]
    /\ UNCHANGED <<m_args, itfs, bindable, traffic, watch, m_sock, binds, m_dsts,
                   m_salinity_received, m_salinity_estimated_local, m_tstamps,
                   inbox, stop, now, merged, faulty, sent>>

\* poll() finds a datagram: readMessage, whole.
readMessage(n) ==
    /\ pc[n] = "wait"
    /\ inbox[n] # <<>>
    /\ LET d == Head(inbox[n])
           res == Filter(m_tstamps[n], SystemId(n), d)
       IN /\ m_tstamps' = [m_tstamps EXCEPT ![n] = Stamped(m_tstamps[n], SystemId(n), d)]
          /\ IF res # "accepted"
             THEN /\ pc' = [pc EXCEPT ![n] = "loop"]
                  /\ inbox' = [inbox EXCEPT ![n] = Tail(inbox[n])]
                  /\ ev' = [ev EXCEPT ![n] = Event("read", res, 0, 0, m_salinity_estimated_local[n])]
                  /\ UNCHANGED <<m_salinity_received, m_salinity_estimated_local,
                                 m_dsts, now, merged, sent>>
             ELSE /\ m_salinity_received' = [m_salinity_received EXCEPT ![n] = "freed"]
                  /\ merged' = [merged EXCEPT ![n] = merged[n] \cup ({<<d.addr, d.ts>>} \cap watch)]
                  /\ \E o \in stimateSalinity("freed", m_salinity_estimated_local[n],
                                              m_args[n], d.val) :
                       IF o.crash
                       THEN /\ pc' = [pc EXCEPT ![n] = "crashed"]
                            /\ inbox' = [inbox EXCEPT ![n] = Tail(inbox[n])]
                            /\ ev' = [ev EXCEPT ![n] = Event("read", res, 1, 0, m_salinity_estimated_local[n])]
                            /\ UNCHANGED <<m_salinity_estimated_local, m_dsts, now, sent>>
                       ELSE /\ pc' = [pc EXCEPT ![n] = "loop"]
                            /\ m_salinity_estimated_local' =
                                   [m_salinity_estimated_local EXCEPT ![n] = o.local]
                            /\ announceEstimatedSalinity(n, o.local, Tail(inbox[n]))
                            /\ ev' = [ev EXCEPT ![n] = Event("read", res, 1, 1, m_salinity_estimated_local[n])]
    /\ UNCHANGED <<m_args, itfs, bindable, traffic, watch, m_sock, binds, stop, faulty>>

-----------------------------------------------------------------------------
(* The environment. *)

\* The host raises the stop signal.
Stop(n) ==
    /\ pc[n] \in {"main", "loop", "wait"}
    /\ ~stop[n]
    /\ stop' = [stop EXCEPT ![n] = TRUE]
    /\ UNCHANGED <<m_args, itfs, bindable, traffic, watch, pc, m_sock, binds, m_dsts,
                   m_salinity_received, m_salinity_estimated_local, m_tstamps,
                   inbox, now, ev, merged, faulty, sent>>

\* A foreign sender's datagram reaches the socket.
Arrive(n, d) ==
    /\ pc[n] \in {"main", "loop", "wait"}
    /\ Len(inbox[n]) < MaxQueue
    /\ inbox' = [inbox EXCEPT ![n] = Append(inbox[n], d)]
    /\ UNCHANGED <<m_args, itfs, bindable, traffic, watch, pc, m_sock, binds, m_dsts,
                   m_salinity_received, m_salinity_estimated_local, m_tstamps,
                   stop, now, ev, merged, faulty, sent>>

\* The transport loses a queued datagram.
Lose(n) ==
    /\ inbox[n] # <<>>
    /\ inbox' = [inbox EXCEPT ![n] = Tail(inbox[n])]
    /\ UNCHANGED <<m_args, itfs, bindable, traffic, watch, pc, m_sock, binds, m_dsts,
                   m_salinity_received, m_salinity_estimated_local, m_tstamps,
                   stop, now, ev, merged, faulty, sent>>

\* The interfaces of the host change: Interface::get() returns another list.
Interfaces(n, is) ==
    /\ pc[n] \in {"main", "loop", "wait"}
    /\ is # itfs[n]
    /\ itfs' = [itfs EXCEPT ![n] = is]
    /\ UNCHANGED <<m_args, bindable, traffic, watch, pc, m_sock, binds, m_dsts,
                   m_salinity_received, m_salinity_estimated_local, m_tstamps,
                   inbox, stop, now, ev, merged, faulty, sent>>

-----------------------------------------------------------------------------
(* Specifications. *)

Arguments(ports, lback, mcast, bcast, bound, measured) ==
    [ports |-> ports, enable_lback |-> lback, enable_mcast |-> mcast,
     enable_bcast |-> bcast, max_acceptable_salinity |-> bound,
     measured_salinity |-> measured]

\* measured_salinity is a uint8_t; the bound is positive.
Baselines == {0, 1, MaxBound + 1}
Bounds == {MaxBound - 1, MaxBound}

Times == {1, 2}
Senders == {"10.0.0.2", "10.0.0.3"}

\* The state a set of nodes starts in, whatever the configuration.
Constructed(ns) ==
    /\ pc = [n \in ns |-> "init"]
    /\ m_sock = [n \in ns |-> <<>>]
    /\ binds = [n \in ns |-> <<>>]
    /\ m_dsts = [n \in ns |-> <<>>]
    /\ m_salinity_estimated_local = [n \in ns |-> 0]
    /\ m_tstamps = [n \in ns |-> [a \in {} |-> 0]]
    /\ inbox = [n \in ns |-> <<>>]
    /\ stop = [n \in ns |-> FALSE]
    /\ ev = [n \in ns |-> Event("none", "-", 0, 0, 0)]
    /\ merged = [n \in ns |-> {}]
    /\ sent = [n \in ns |-> [dispatches |-> 0, writes |-> <<>>]]

\* One node, default endpoints, any bound and baseline, any traffic.
Init ==
    /\ Constructed({1})
    /\ m_args \in [{1} -> {Arguments(<<P1, P2>>, FALSE, TRUE, TRUE, b, m) :
                             b \in Bounds, m \in Baselines}]
    /\ itfs = [n \in {1} |-> <<Lo, Eth0>>]
    /\ bindable = [n \in {1} |-> {P1, P2}]
    /\ m_salinity_received \in [{1} -> {"null", "wild"}]
    /\ traffic = {Malformed, OtherType} \cup SalinityFrom(Senders, Times, {2}, Vals)
                  \cup SalinityFrom(Senders, Times, {SystemId(1)}, {2})
    /\ watch = {}
    /\ faulty = [n \in {1} |-> {}]
    /\ now = MaxClock

\* The steps of the tasks themselves.
Run ==
    \/ \E n \in Nodes : onResourceInitialization(n)
    \/ \E n \in Nodes : onMain(n)
    \/ \E n \in Nodes : LoopTest(n)
    \/ \E n \in Nodes : PollTimeout(n)
    \/ \E n \in Nodes : readMessage(n)

Next ==
    \/ Run
    \/ \E n \in Nodes : \E d \in traffic : Arrive(n, d)

Spec == Init /\ [][Next]_vars
\* One node, one bound and baseline: traffic from two senders under either
\* source id, with the merged pairs of one sender recorded.
ReplayInit ==
    /\ Constructed({1})
    /\ m_args = [n \in {1} |-> Arguments(<<P1, P2>>, FALSE, TRUE, TRUE, MaxBound, 1)]
    /\ itfs = [n \in {1} |-> <<Lo, Eth0>>]
    /\ bindable = [n \in {1} |-> {P1, P2}]
    /\ m_salinity_received = [n \in {1} |-> "null"]
    /\ traffic = {Malformed, OtherType} \cup SalinityFrom(Senders, Times, {1, 2}, Vals)
    /\ watch = {"10.0.0.2"} \X Times
    /\ faulty = [n \in {1} |-> {}]
    /\ now = MaxClock

ReplaySpec == ReplayInit /\ [][Next]_vars

PortLists == {<<>>, <<P1>>, <<P1, P2>>, <<P2, P1>>}
ItfLists == {<<>>, <<Lo, Eth0>>, <<Eth0, Ppp0, Eth1>>}

\* One node, any flags, ports, interfaces and bind results, one peer.
CfgInit ==
    /\ Constructed({1})
    /\ m_args \in [{1} -> {Arguments(ps, lb, mc, bc, MaxBound, 1) :
                             ps \in PortLists, lb \in BOOLEAN, mc \in BOOLEAN,
                             bc \in BOOLEAN}]
    /\ itfs \in [{1} -> ItfLists]
    /\ bindable \in [{1} -> SUBSET {P1, P2}]
    /\ m_salinity_received = [n \in {1} |-> "null"]
    /\ traffic = SalinityFrom({"10.0.0.2"}, {1}, {2}, {2})
    /\ watch = {}
    /\ faulty = [n \in {1} |-> {}]
    /\ now = MaxClock

CfgSpec == CfgInit /\ [][Next]_vars

\* Two nodes with distinct system ids, the same bound and different
\* baselines, announcing by multicast on the port both listen on; the only
\* traffic is their own, and the transport may lose it.
NetInit ==
    /\ Constructed({1, 2})
    /\ m_args = [n \in {1, 2} |-> Arguments(<<P1>>, FALSE, TRUE, FALSE, MaxBound, n - 1)]
    /\ itfs = [n \in {1, 2} |-> <<Lo, Eth0>>]
    /\ bindable = [n \in {1, 2} |-> {P1}]
    /\ m_salinity_received = [n \in {1, 2} |-> "null"]
    /\ traffic = {}
    /\ watch = {}
    /\ faulty = [n \in {1, 2} |-> {}]
    /\ now = 0

NetNext ==
    \/ Run
    \/ \E n \in Nodes : Lose(n)

NetSpec == NetInit /\ [][NetNext]_vars

\* The steps of node n's task: its thread is always scheduled again.
Task(n) ==
    \/ onResourceInitialization(n)
    \/ onMain(n)
    \/ LoopTest(n)
    \/ PollTimeout(n)
    \/ readMessage(n)

FairNetSpec == NetSpec /\ \A n \in {1, 2} : WF_vars(Task(n))

\* One node, any flags, one or two ports, interfaces that change between the
\* announces, and destinations on which a write may fail.
AllItfLists == ItfLists \cup {<<Eth0, Eth1, Wlan0>>}

FanInit ==
    /\ Constructed({1})
    /\ m_args \in [{1} -> {Arguments(ps, lb, mc, bc, MaxBound, 1) :
                             ps \in {<<P1>>, <<P1, P2>>}, lb \in BOOLEAN,
                             mc \in BOOLEAN, bc \in BOOLEAN}]
    /\ itfs \in [{1} -> AllItfLists]
    /\ bindable = [n \in {1} |-> {P1, P2}]
    /\ m_salinity_received = [n \in {1} |-> "null"]
    /\ traffic = SalinityFrom({"10.0.0.2"}, Times, {2}, {2})
    /\ watch = {}
    /\ faulty = [n \in {1} |-> {AddrMcast, Eth0.broadcast}]
    /\ now = MaxClock

FanNext ==
    \/ Run
    \/ \E n \in Nodes : \E d \in traffic : Arrive(n, d)
    \/ \E n \in Nodes : \E is \in AllItfLists : Interfaces(n, is)

FanSpec == FanInit /\ [][FanNext]_vars

\* One node that the host stops at any moment, under any traffic of one peer.
StopInit ==
    /\ Constructed({1})
    /\ m_args = [n \in {1} |-> Arguments(<<P1, P2>>, FALSE, TRUE, TRUE, MaxBound, 1)]
    /\ itfs = [n \in {1} |-> <<Lo, Eth0>>]
    /\ bindable = [n \in {1} |-> {P1, P2}]
    /\ m_salinity_received = [n \in {1} |-> "null"]
    /\ traffic = {Malformed} \cup SalinityFrom({"10.0.0.2"}, Times, {2}, Vals)
    /\ watch = {}
    /\ faulty = [n \in {1} |-> {}]
    /\ now = MaxClock

StopNext ==
    \/ Run
    \/ \E n \in Nodes : \E d \in traffic : Arrive(n, d)
    \/ \E n \in Nodes : Stop(n)

StopSpec == StopInit /\ [][StopNext]_vars

FairStopSpec == StopSpec /\ \A n \in {1} : WF_vars(Task(n))

\* One node, one bound and baseline: datagrams of every kind from two
\* senders under either source id, all with one value, with the merged pairs
\* of one sender recorded.
FilterInit ==
    /\ Constructed({1})
    /\ m_args = [n \in {1} |-> Arguments(<<P1, P2>>, FALSE, TRUE, TRUE, MaxBound, 1)]
    /\ itfs = [n \in {1} |-> <<Lo, Eth0>>]
    /\ bindable = [n \in {1} |-> {P1, P2}]
    /\ m_salinity_received = [n \in {1} |-> "null"]
    /\ traffic = {Malformed, OtherType} \cup SalinityFrom(Senders, Times, {1, 2}, {2})
    /\ watch = {"10.0.0.2"} \X Times
    /\ faulty = [n \in {1} |-> {}]
    /\ now = MaxClock

FilterSpec == FilterInit /\ [][Next]_vars

\* One node, any bound and baseline, one peer whose values are positive,
\* zero or negative.
SignedVals == Vals \cup {0}

SatInit ==
    /\ Constructed({1})
    /\ m_args \in [{1} -> {Arguments(<<P1, P2>>, FALSE, TRUE, TRUE, b, m) :
                             b \in Bounds, m \in Baselines}]
    /\ itfs = [n \in {1} |-> <<Lo, Eth0>>]
    /\ bindable = [n \in {1} |-> {P1, P2}]
    /\ m_salinity_received = [n \in {1} |-> "null"]
    /\ traffic = SalinityFrom({"10.0.0.2"}, Times, {2}, SignedVals)
    /\ watch = {}
    /\ faulty = [n \in {1} |-> {}]
    /\ now = MaxClock

SatSpec == SatInit /\ [][Next]_vars

-----------------------------------------------------------------------------
(* Properties. *)

Bound(n) == m_args[n].max_acceptable_salinity
Baseline(n) == m_args[n].measured_salinity
Local(n) == m_salinity_estimated_local[n]

\* The startup merge has completed.
Started(n) == pc[n] \in {"loop", "wait", "stopped"}

\* This step is node n's readMessage.
Reads(n) == pc[n] = "wait" /\ inbox[n] # <<>> /\ pc'[n] # "wait"

\* C1: after every merge the magnitude of the local estimate is at most the
\* configured bound.
C1_BoundNeverExceeded ==
    \A n \in Nodes : Started(n) => Abs(Local(n)) <= Bound(n)

\* C2 as stated: no datagram is merged whose (sender address, timestamp)
\* pair was merged before, whatever arrived in between.
C2_MergedOncePerPair ==
    [][\A n \in Nodes :
         Reads(n) /\ <<Head(inbox[n]).addr, Head(inbox[n]).ts>> \in merged[n]
             => ev'[n].merges = 0]_vars

\* C2 amended: reading a Salinity datagram makes its timestamp the record's
\* entry for its sender, only such a read from that sender changes the entry,
\* and a datagram whose timestamp equals the entry (no Salinity datagram with
\* another timestamp was read from that sender since) causes no merge, no
\* announce and no change of the local estimate.
C2_ReplayNotMerged ==
    [][\A n \in Nodes :
         /\ Reads(n) /\ Head(inbox[n]).kind = "sal" =>
                LET d == Head(inbox[n])
                IN /\ d.addr \in DOMAIN m_tstamps'[n]
                   /\ m_tstamps'[n][d.addr] = d.ts
                   /\ (d.addr \in DOMAIN m_tstamps[n] /\ m_tstamps[n][d.addr] = d.ts)
                         => /\ ev'[n].merges = 0
                            /\ ev'[n].announces = 0
                            /\ Local(n)' = Local(n)
         /\ \A a \in DOMAIN m_tstamps[n] :
                \/ Reads(n) /\ Head(inbox[n]).kind = "sal" /\ Head(inbox[n]).addr = a
                \/ a \in DOMAIN m_tstamps'[n] /\ m_tstamps'[n][a] = m_tstamps[n][a]]_vars

\* The only sender seen had its current pair merged, and a replay of that
\* pair was rejected as a duplicate.
C2_Witness ==
    \E n \in Nodes :
        /\ ev[n].op = "read" /\ ev[n].res = "duplicate"
        /\ DOMAIN m_tstamps[n] = {"10.0.0.2"}
        /\ <<"10.0.0.2", m_tstamps[n]["10.0.0.2"]>> \in merged[n]

\* C3: a decoded message carrying the node's own source id changes neither
\* the local estimate nor the received estimate, and is followed by no merge
\* and no announce.
C3_SelfEchoIgnored ==
    [][\A n \in Nodes :
         Reads(n) /\ Head(inbox[n]).kind # "bad" /\ Head(inbox[n]).src = SystemId(n)
             => /\ Local(n)' = Local(n)
                /\ m_salinity_received'[n] = m_salinity_received[n]
                /\ ev'[n].merges = 0
                /\ ev'[n].announces = 0
                /\ m_dsts'[n] = m_dsts[n]]_vars

C3_Witness ==
    \E n \in Nodes : ev[n].op = "read" /\ ev[n].res = "self-echo"

\* C5: a wait that times out with no datagram is followed by a merge and an
\* announce before the next wait.
C5_TimeoutAnnounces ==
    \A n \in Nodes : ev[n].op = "timeout" => ev[n].merges = 1 /\ ev[n].announces = 1

\* C6: while no peer estimate has been accepted, the local estimate equals
\* the baseline from the startup merge on.
C6_BaselineKept ==
    \A n \in Nodes :
        Started(n) /\ m_salinity_received[n] # "freed" => Local(n) = Baseline(n)

\* C7: an accepted peer value v found with |local| < bound makes the local
\* estimate local + v, and a later merge without a newly accepted message
\* leaves the local estimate unchanged.
C7_DrainedOnce ==
    [][\A n \in Nodes :
         /\ Reads(n) /\ ev'[n].res = "accepted" /\ Abs(Local(n)) < Bound(n)
                => Local(n)' = Local(n) + Head(inbox[n]).val
         /\ m_salinity_received[n] = "freed" /\ ev'[n] # ev[n] /\ ev'[n].merges = 1
                /\ ~(Reads(n) /\ ev'[n].res = "accepted")
                => Local(n)' = Local(n)]_vars

\* C8: a merge that has a received estimate and finds |local| >= bound sets
\* the local estimate to exactly the bound.
C8_Clamped ==
    \A n \in Nodes :
        ev[n].merges = 1 /\ m_salinity_received[n] # "null" /\ Abs(ev[n].pre) >= Bound(n)
            => Local(n) = Bound(n) /\ pc[n] # "crashed"

\* A merge clamped a local value at or below minus the bound.
C8_Witness ==
    \E n \in Nodes :
        /\ ev[n].merges = 1 /\ ev[n].res = "accepted"
        /\ ev[n].pre <= -Bound(n) /\ Local(n) = Bound(n)
\* C9: initialization binds the first configured port whose bind succeeds
\* and tries none after it; when no bind succeeds (or no port is configured)
\* it ends fatally, having tried every port, and no later step of the task
\* runs.
C9_FirstPortBound ==
    \A n \in Nodes :
        pc[n] # "init" =>
            LET ports == m_args[n].ports
                good == {i \in 1..Len(ports) : ports[i] \in bindable[n]}
            IN IF good = {}
               THEN /\ pc[n] = "fatal" /\ m_sock[n] = <<>> /\ binds[n] = ports
                    /\ ev[n].op = "init" /\ m_dsts[n] = <<>>
               ELSE LET f == CHOOSE i \in good : \A j \in good : i <= j
                    IN /\ pc[n] # "fatal"
                       /\ m_sock[n] = <<ports[f]>>
                       /\ binds[n] = SubSeq(ports, 1, f)

\* The first port failed to bind and the second one was bound.
C9_Witness ==
    \E n \in Nodes :
        /\ Len(binds[n]) = 2 /\ m_sock[n] = <<m_args[n].ports[2]>>
        /\ m_args[n].ports[1] \notin bindable[n]
        /\ Started(n)

IsLoopbackDst(e) == e.local
IsMulticastDst(e) == ~e.local /\ e.addr = AddrMcast
IsBroadcastDst(e) == ~e.local /\ e.addr # AddrMcast
NotLoopbackDst(e) == ~IsLoopbackDst(e)
NotMulticastDst(e) == ~IsMulticastDst(e)
NotBroadcastDst(e) == ~IsBroadcastDst(e)

OnePerPort(s, ports, a, l) ==
    /\ Len(s) = Len(ports)
    /\ \A i \in 1..Len(ports) : s[i] = [addr |-> a, port |-> ports[i], local |-> l]

\* The destination list has been built at least once.
Announced(n) == Started(n) \/ (pc[n] = "crashed" /\ ev[n].op = "read")

\* C10: the destination list holds one loopback endpoint per port iff
\* loopback is enabled, one multicast endpoint per port iff multicast is
\* enabled, broadcast endpoints iff broadcast is enabled; with one flag
\* toggled the endpoints of the two other kinds are the same, in the same
\* order.
C10_FlagIndependence ==
    \A n \in Nodes :
        Announced(n) =>
            LET a == m_args[n]
                s == m_dsts[n]
                lb == probeInterfaces([a EXCEPT !.enable_lback = ~@], itfs[n])
                mc == probeInterfaces([a EXCEPT !.enable_mcast = ~@], itfs[n])
                bc == probeInterfaces([a EXCEPT !.enable_bcast = ~@], itfs[n])
            IN /\ IF a.enable_lback
                  THEN OnePerPort(SelectSeq(s, IsLoopbackDst), a.ports, Loopback, TRUE)
                  ELSE SelectSeq(s, IsLoopbackDst) = <<>>
               /\ IF a.enable_mcast
                  THEN OnePerPort(SelectSeq(s, IsMulticastDst), a.ports, AddrMcast, FALSE)
                  ELSE SelectSeq(s, IsMulticastDst) = <<>>
               /\ (SelectSeq(s, IsBroadcastDst) # <<>>) <=> a.enable_bcast
               /\ SelectSeq(lb, NotLoopbackDst) = SelectSeq(s, NotLoopbackDst)
               /\ SelectSeq(mc, NotMulticastDst) = SelectSeq(s, NotMulticastDst)
               /\ SelectSeq(bc, NotBroadcastDst) = SelectSeq(s, NotBroadcastDst)
               /\ (SelectSeq(lb, IsLoopbackDst) = <<>>) <=> a.enable_lback
               /\ (SelectSeq(mc, IsMulticastDst) = <<>>) <=> a.enable_mcast
               /\ (SelectSeq(bc, IsBroadcastDst) = <<>>) <=> a.enable_bcast

\* Loopback and broadcast on, multicast off, two ports, interfaces present.
C10_Witness ==
    \E n \in Nodes :
        /\ Announced(n)
        /\ m_args[n].enable_lback /\ ~m_args[n].enable_mcast /\ m_args[n].enable_bcast
        /\ Len(m_args[n].ports) = 2
        /\ Len(m_dsts[n]) = 8
\* C4: all nodes eventually hold the same local estimate and keep it.
C4_Convergence ==
    <>[](\A m \in Nodes : \A n \in Nodes : Local(m) = Local(n))

\* This step of node n calls announceEstimatedSalinity.
Announces(n) == (pc[n] = "main" \/ Reads(n)) /\ ev'[n].announces = 1

\* k: the interfaces that are not loopback and have a broadcast address.
BroadcastItfs(is) ==
    Cardinality({i \in DOMAIN is : is[i].address # Loopback /\ is[i].broadcast # AddrAny})

Flag(b) == IF b THEN 1 ELSE 0

\* C11: every announce leaves a destination list of
\* |ports| x (loopback + multicast + broadcast x (1 + k)) entries for the flags
\* and the interfaces of that moment, whatever the list held before, and with
\* broadcast enabled (1 + k) x |ports| of them are broadcast endpoints, equal
\* broadcast addresses of two interfaces counted twice.
C11_EndpointCount ==
    [][\A n \in Nodes :
         Announces(n) =>
             LET a == m_args[n]
                 k == BroadcastItfs(itfs[n])
             IN /\ Len(m_dsts'[n]) =
                        Len(a.ports) * (Flag(a.enable_lback) + Flag(a.enable_mcast)
                                            + Flag(a.enable_bcast) * (1 + k))
                /\ a.enable_bcast =>
                        Len(SelectSeq(m_dsts'[n], IsBroadcastDst)) = (1 + k) * Len(a.ports)]_vars

\* A later announce, with broadcast only, two ports and three interfaces that
\* have broadcast addresses (two of them the same one), left 8 endpoints.
C11_Witness ==
    \E n \in Nodes :
        /\ ev[n].op = "read" /\ ev[n].announces = 1
        /\ m_args[n].enable_bcast /\ ~m_args[n].enable_mcast /\ ~m_args[n].enable_lback
        /\ Len(m_args[n].ports) = 2
        /\ itfs[n] = <<Eth0, Eth1, Wlan0>>
        /\ Len(m_dsts[n]) = 8
        /\ \E i \in DOMAIN m_dsts[n] : \E j \in DOMAIN m_dsts[n] :
               i # j /\ m_dsts[n][i] = m_dsts[n][j]

\* C17: an announce dispatches the local estimate once and then calls
\* m_sock.write once for every destination not flagged local, in list order,
\* whether or not earlier writes failed; failed writes leave the local
\* estimate at the value the merge gave it and the task in its loop.
C17_BestEffortFanOut ==
    [][\A n \in Nodes :
         Announces(n) =>
             LET ws == sent'[n].writes
                 remote == SelectSeq(m_dsts'[n], NotLoopbackDst)
             IN /\ sent'[n].dispatches = 1
                /\ Len(ws) = Len(remote)
                /\ \A i \in DOMAIN ws :
                       ws[i].addr = remote[i].addr /\ ws[i].port = remote[i].port
                /\ pc'[n] = "loop"
                /\ \E o \in stimateSalinity(m_salinity_received'[n], Local(n), m_args[n],
                                              IF Reads(n) THEN Head(inbox[n]).val ELSE 0) :
                       ~o.crash /\ Local(n)' = o.local]_vars

\* An announce after an accepted datagram skipped the loopback destinations,
\* had a write fail and a later write succeed, and the task went on.
C17_Witness ==
    \E n \in Nodes :
        /\ ev[n].op = "read" /\ ev[n].announces = 1 /\ pc[n] = "wait"
        /\ \E i \in DOMAIN m_dsts[n] : m_dsts[n][i].local
        /\ \E i \in DOMAIN sent[n].writes : \E j \in DOMAIN sent[n].writes :
               i < j /\ ~sent[n].writes[i].ok /\ sent[n].writes[j].ok

\* C12: once the stop signal is raised the task reaches Stopped; a datagram
\* read after the signal is followed by the loop test, which then ends the
\* loop, so at most one is read; a stopped task merges and announces nothing.
C12_Shutdown ==
    /\ \A n \in {1} : stop[n] ~> pc[n] = "stopped"
    /\ [][\A n \in Nodes :
            /\ stop[n] /\ Reads(n) => pc'[n] \in {"loop", "crashed"}
            /\ stop[n] /\ pc[n] = "loop" /\ pc'[n] # pc[n] => pc'[n] = "stopped"
            /\ pc[n] = "stopped" =>
                   /\ pc'[n] = "stopped" /\ ev'[n] = ev[n] /\ sent'[n] = sent[n]
                   /\ Local(n)' = Local(n) /\ m_dsts'[n] = m_dsts[n]]_vars

\* C13: reading takes the datagram at the head of the queue; an accepted one
\* causes one merge and one announce, within the same read, of the value just
\* merged; a rejected one causes no merge and no announce.
C13_ReceiptDriven ==
    [][\A n \in Nodes :
         Reads(n) =>
             /\ inbox'[n] = Tail(inbox[n])
             /\ ev'[n].res = Filter(m_tstamps[n], SystemId(n), Head(inbox[n]))
             /\ IF ev'[n].res = "accepted"
                THEN /\ ev'[n].merges = 1 /\ ev'[n].announces = 1
                     /\ sent'[n].dispatches = 1
                     /\ pc'[n] = "loop"
                ELSE /\ ev'[n].merges = 0 /\ ev'[n].announces = 0
                     /\ sent'[n] = sent[n] /\ m_dsts'[n] = m_dsts[n]
                     /\ Local(n)' = Local(n)]_vars

\* The record of node n holds timestamp t for address a.
Recorded(n, a, t) == a \in DOMAIN m_tstamps[n] /\ m_tstamps[n][a] = t

\* C14: a malformed datagram, one of another message type, or a duplicate
\* changes neither the record, the received estimate nor the local estimate;
\* a self-echo changes at most the record's entry for its sender.
C14_RejectionKeepsState ==
    [][\A n \in Nodes :
         Reads(n) =>
             LET d == Head(inbox[n])
             IN /\ d.kind # "sal" \/ Recorded(n, d.addr, d.ts) =>
                       /\ m_tstamps'[n] = m_tstamps[n]
                       /\ m_salinity_received'[n] = m_salinity_received[n]
                       /\ Local(n)' = Local(n)
                /\ d.kind = "sal" /\ d.src = SystemId(n) =>
                       /\ m_salinity_received'[n] = m_salinity_received[n]
                       /\ Local(n)' = Local(n)
                       /\ DOMAIN m_tstamps'[n] \subseteq DOMAIN m_tstamps[n] \cup {d.addr}
                       /\ \A a \in DOMAIN m_tstamps[n] \ {d.addr} :
                              m_tstamps'[n][a] = m_tstamps[n][a]]_vars

\* A datagram of another message type was rejected while the record held
\* another timestamp for its sender and a peer estimate had been merged.
C14_Witness ==
    \E n \in Nodes :
        /\ ev[n].op = "read" /\ ev[n].res = "wrong-type"
        /\ Recorded(n, OtherType.addr, 2) /\ OtherType.ts # 2
        /\ m_salinity_received[n] = "freed"

\* C15: a self-echo from address A whose timestamp t is not the recorded one
\* makes t the record's entry for A and is then rejected as a self-echo; a
\* datagram from A that carries the recorded timestamp is rejected as a
\* duplicate whatever its source id.
C15_RecordedBeforeEcho ==
    [][\A n \in Nodes :
         Reads(n) /\ Head(inbox[n]).kind = "sal" =>
             LET d == Head(inbox[n])
             IN /\ d.src = SystemId(n) /\ ~Recorded(n, d.addr, d.ts) =>
                       /\ ev'[n].res = "self-echo"
                       /\ d.addr \in DOMAIN m_tstamps'[n]
                       /\ m_tstamps'[n][d.addr] = d.ts
                /\ Recorded(n, d.addr, d.ts) =>
                       /\ ev'[n].res = "duplicate"
                       /\ ev'[n].merges = 0]_vars

\* Nothing was ever accepted, the last datagram read was a self-echo, and a
\* datagram of another source id with the timestamp that self-echo left in
\* the record for its sender is next to be read.
C15_Witness ==
    \E n \in Nodes :
        /\ pc[n] = "wait" /\ inbox[n] # <<>>
        /\ ev[n].op = "read" /\ ev[n].res = "self-echo"
        /\ m_salinity_received[n] = "null"
        /\ Head(inbox[n]).kind = "sal" /\ Head(inbox[n]).src # SystemId(n)
        /\ DOMAIN m_tstamps[n] = {Head(inbox[n]).addr}
        /\ Recorded(n, Head(inbox[n]).addr, Head(inbox[n]).ts)

\* C16: no address leaves the record; after a Salinity datagram from A with
\* timestamp t is read, the record holds t for A; a timestamp lower than
\* the recorded one is not rejected as a duplicate.
C16_RecordShape ==
    [][\A n \in Nodes :
         /\ DOMAIN m_tstamps[n] \subseteq DOMAIN m_tstamps'[n]
         /\ Reads(n) /\ Head(inbox[n]).kind = "sal" =>
                LET d == Head(inbox[n])
                IN /\ d.addr \in DOMAIN m_tstamps'[n]
                   /\ m_tstamps'[n][d.addr] = d.ts
                   /\ d.addr \in DOMAIN m_tstamps[n] /\ d.ts < m_tstamps[n][d.addr] =>
                          ev'[n].res = IF d.src = SystemId(n) THEN "self-echo"
                                                              ELSE "accepted"]_vars

\* Timestamp 2 of the only sender seen was merged, and the datagram read
\* last, accepted, left the lower timestamp 1 in the record.
C16_Witness ==
    \E n \in Nodes :
        /\ ev[n].op = "read" /\ ev[n].res = "accepted"
        /\ DOMAIN m_tstamps[n] = {"10.0.0.2"}
        /\ m_tstamps[n]["10.0.0.2"] = 1
        /\ <<"10.0.0.2", 2>> \in merged[n]

\* C18: a merge finds m_salinity_received null or pointing at a live object,
\* and the startup merge finds it null.
C18_ReceivedLive ==
    \A n \in Nodes :
        /\ ev[n].merges = 1 => m_salinity_received[n] \notin {"wild", "freed"}
        /\ ev[n].op = "start" => m_salinity_received[n] = "null"

\* The last step was a merge that had a received estimate and found the
\* magnitude of the local estimate at or above the bound.
Saturated(n) ==
    ev[n].merges = 1 /\ m_salinity_received[n] # "null" /\ Abs(ev[n].pre) >= Bound(n)

\* C19: from a merge that clamped on, the local estimate is the bound in
\* every later state, whatever is accepted, and the task does not fail in a
\* merge; a merge that finds the magnitude at or above the bound yields the
\* bound whatever value the accepted datagram carries.
C19_SaturationAbsorbing ==
    /\ \A n \in {1} : [](Saturated(n) => [](Local(n) = Bound(n) /\ pc[n] # "crashed"))
    /\ [][\A n \in Nodes :
            Reads(n) /\ ev'[n].res = "accepted" /\ Abs(Local(n)) >= Bound(n)
                => Local(n)' = Bound(n) /\ ev'[n].announces = 1]_vars

\* Baseline 1 and bound 2 with even peer values: the local estimate is odd
\* until a merge clamps it, so this accepted datagram was merged after a
\* clamp, found the local estimate at the bound and left it there.
C19_Witness ==
    \E n \in Nodes :
        /\ Bound(n) = 2 /\ Baseline(n) = 1
        /\ ev[n].op = "read" /\ ev[n].res = "accepted"
        /\ ev[n].pre = 2 /\ Local(n) = 2
====
